---- MODULE Spec2Model ----
(***************************************************************************)
(* Internal power of liberty cells: liberty/InternalPower.cc.              *)
(*                                                                         *)
(*   InternalPowerAttrs  the builder filled by the liberty reader          *)
(*   InternalPower       the per (port, related port) record               *)
(*   InternalPowerModel  the wrapper of one per-edge table                 *)
(*                                                                         *)
(* Floats are modelled as naturals (tenths: 0.8 is 8, 3.2 is 32); pointers *)
(* are object ids, 0 is nullptr.                                           *)
(***************************************************************************)
EXTENDS Integers, Sequences, FiniteSets, TLC

VARIABLES
  attrs,            \* InternalPowerAttrs objects: id -> [when_, models_, related_pg_pin_]
  powers,           \* InternalPower objects ever constructed, in construction order
  internal_powers,  \* LibertyCell::internal_powers_: cell -> sequence of InternalPower ids
  model_,           \* InternalPowerModel::model_: model id -> wrapped table (or NullTable)
  strings,          \* heap strings made by stringCopy, in allocation order (their contents)
  deleted,          \* how often each heap object was released
  pc,               \* position of the one thread inside InternalPower::InternalPower
  call,             \* the last operation and its outcome
  exited            \* TRUE once criticalError (or a crash) has ended the process

vars == <<attrs, powers, internal_powers, model_, strings, deleted, pc, call, exited>>

----------------------------------------------------------------------------
(* Bounds of the model *)

\* Table orders 0..MaxOrder are enumerated (0..3 are supported, the rest are not).
MaxOrder == 4
\* InternalPower objects constructed in one behaviour of RegistrySpec.
MaxPowers == 2
\* Releases of one heap object in one behaviour (2 shows a double release).
MaxDeleted == 2

(* Program constants *)

\* criticalError(225, "unsupported table order")
ErrTableOrder == 225
\* criticalError(226, "unsupported table axes")
ErrTableAxes == 226

----------------------------------------------------------------------------
(* Collaborators' vocabularies *)

\* RiseFall::riseIndex(), RiseFall::fallIndex(); RiseFall::range() goes rise, fall.
RiseFall == {"rise", "fall"}

\* A null pointer to an axis.
NullAxis == "nullptr"

\* TableAxisVariable: the five kinds InternalPower.cc names, and one of the others.
TableAxisVariable ==
  { "input_transition_time", "total_output_net_capacitance",
    "constrained_pin_transition", "related_pin_transition",
    "related_out_total_output_net_capacitance", "unknown" }

\* A TableModel as this unit reads it: order(), axis1(), axis2(), axis3().
\* A table of order n has its axes 1..n (of the three this unit can reach);
\* the axes past its order may be there or not.
TableModels ==
  { t \in [ present : {TRUE}, order : 0..MaxOrder,
            axis1 : TableAxisVariable \cup {NullAxis},
            axis2 : TableAxisVariable \cup {NullAxis},
            axis3 : TableAxisVariable \cup {NullAxis} ] :
      /\ t.order >= 1 => t.axis1 # NullAxis
      /\ t.order >= 2 => t.axis2 # NullAxis
      /\ t.order >= 3 => t.axis3 # NullAxis }

\* model_ == nullptr
NullTable ==
  [ present |-> FALSE, order |-> 0,
    axis1 |-> NullAxis, axis2 |-> NullAxis, axis3 |-> NullAxis ]

\* The value of a float that was declared and never assigned.
Uninit == -1

----------------------------------------------------------------------------
(* InternalPowerModel: the pure part *)

\* axisValue with a related-family kind resolved like a transition time.
axisValue_RelatedAsSlew(axis, in_slew, load_cap) ==
  IF axis = NullAxis
    THEN [status |-> "undefined", value |-> Uninit, error |-> 0]
  ELSE IF axis \in {"input_transition_time", "related_pin_transition"}
    THEN [status |-> "ok", value |-> in_slew, error |-> 0]
  ELSE IF axis = "total_output_net_capacitance"
    THEN [status |-> "ok", value |-> load_cap, error |-> 0]
  ELSE [status |-> "fatal", value |-> 0, error |-> ErrTableAxes]

\* InternalPowerModel::axisValue. status "fatal" is criticalError(error), which
\* does not return; value is what the return statement of that branch holds.
\* A null axis is dereferenced: status "undefined".
axisValue(axis, in_slew, load_cap) ==
  IF axis = NullAxis
    THEN [status |-> "undefined", value |-> Uninit, error |-> 0]
  ELSE IF axis = "input_transition_time"
    THEN [status |-> "ok", value |-> in_slew, error |-> 0]
  ELSE IF axis = "total_output_net_capacitance"
    THEN [status |-> "ok", value |-> load_cap, error |-> 0]
  ELSE [status |-> "fatal", value |-> 0, error |-> ErrTableAxes]

\* The assignments axis_valueN = axisValue(...) of findAxisValues, in order:
\* the first call that does not return ends the function, and its variable and
\* the ones assigned after it (the trailing "= 0.0" too) stay unassigned.
AssignAxes(results) ==
  LET bad == {i \in 1..Len(results) : results[i].status # "ok"}
      first == IF bad = {} THEN 0 ELSE CHOOSE i \in bad : \A j \in bad : i <= j
  IN  [ status |-> IF first = 0 THEN "ok" ELSE results[first].status,
        error  |-> IF first = 0 THEN 0 ELSE results[first].error,
        values |-> [ i \in 1..3 |->
                       IF first # 0 /\ i >= first THEN Uninit
                       ELSE IF i > Len(results) THEN 0
                       ELSE results[i].value ] ]

\* findAxisValues with case 2 reading axis1 twice.
findAxisValues_Axis1Twice(table, in_slew, load_cap) ==
  LET a1 == axisValue(table.axis1, in_slew, load_cap)
      a2 == axisValue(table.axis2, in_slew, load_cap)
      a3 == axisValue(table.axis3, in_slew, load_cap)
  IN  CASE table.order = 0 ->
             [status |-> "ok", error |-> 0, values |-> <<0, 0, 0>>]
        [] table.order = 1 -> AssignAxes(<<a1>>)
        [] table.order = 2 -> AssignAxes(<<a1, a1>>)
        [] table.order = 3 -> AssignAxes(<<a1, a2, a3>>)
        [] OTHER ->
             [status |-> "fatal", error |-> ErrTableOrder, values |-> <<0, 0, 0>>]

\* findAxisValues with no default case: every order past 2 is read as 3.
findAxisValues_NoDefault(table, in_slew, load_cap) ==
  LET a1 == axisValue(table.axis1, in_slew, load_cap)
      a2 == axisValue(table.axis2, in_slew, load_cap)
      a3 == axisValue(table.axis3, in_slew, load_cap)
  IN  CASE table.order = 0 ->
             [status |-> "ok", error |-> 0, values |-> <<0, 0, 0>>]
        [] table.order = 1 -> AssignAxes(<<a1>>)
        [] table.order = 2 -> AssignAxes(<<a1, a2>>)
        [] OTHER -> AssignAxes(<<a1, a2, a3>>)

\* InternalPowerModel::findAxisValues: the switch on model_->order().
findAxisValues(table, in_slew, load_cap) ==
  LET a1 == axisValue(table.axis1, in_slew, load_cap)
      a2 == axisValue(table.axis2, in_slew, load_cap)
      a3 == axisValue(table.axis3, in_slew, load_cap)
  IN  CASE table.order = 0 ->
             [status |-> "ok", error |-> 0, values |-> <<0, 0, 0>>]
        [] table.order = 1 -> AssignAxes(<<a1>>)
        [] table.order = 2 -> AssignAxes(<<a1, a2>>)
        [] table.order = 3 -> AssignAxes(<<a1, a2, a3>>)
        [] OTHER ->
             [status |-> "fatal", error |-> ErrTableOrder, values |-> <<0, 0, 0>>]

\* checkAxis that takes the transition time of the other vocabulary too.
checkAxis_AcceptsSlew(axis) ==
  \/ axis = "constrained_pin_transition"
  \/ axis = "related_pin_transition"
  \/ axis = "related_out_total_output_net_capacitance"
  \/ axis = "input_transition_time"

\* InternalPowerModel::checkAxis
checkAxis(axis) ==
  \/ axis = "constrained_pin_transition"
  \/ axis = "related_pin_transition"
  \/ axis = "related_out_total_output_net_capacitance"

\* checkAxes without the test of axis3.
checkAxes_Axis3Unchecked(table) ==
  LET ok1 == IF table.axis1 # NullAxis THEN checkAxis(table.axis1) ELSE TRUE
      ok2 == IF table.axis2 # NullAxis THEN checkAxis(table.axis2) ELSE TRUE
  IN  ok1 /\ ok2

\* InternalPowerModel::checkAxes
checkAxes(table) ==
  LET ok1 == IF table.axis1 # NullAxis THEN checkAxis(table.axis1) ELSE TRUE
      ok2 == IF table.axis2 # NullAxis THEN checkAxis(table.axis2) ELSE TRUE
  IN  ok1 /\ ok2 /\ (table.axis3 = NullAxis)

----------------------------------------------------------------------------
(* InternalPowerModel: power and reportPower *)

\* Results: a float constant of this unit, the table engine's answer to a
\* lookup (the engine is a function of what it is asked), a report string
\* (modelled by what TableModel::reportValue is given), or no result at all.
Float(v) == [float |-> v]
Found(lookup) == [found |-> lookup]
Report(lookup) == [report |-> lookup]
EmptyReport == [report |-> <<>>]
Bool(b) == [bool |-> b]
NoResult == [none |-> TRUE]

\* What an operation that touches no table reports.
NoOutcome ==
  [status |-> "ok", error |-> 0, ret |-> NoResult, axis |-> <<>>, engine |-> <<>>]

\* The call ended in criticalError or in undefined behaviour: nothing returned.
Stopped(av) ==
  [status |-> av.status, error |-> av.error, ret |-> NoResult,
   axis |-> av.values, engine |-> <<>>]

\* InternalPowerModel::power on a model wrapping `table`.
InternalPowerModel_power(table, cell, pvt, in_slew, load_cap) ==
  IF table.present
    THEN LET av == findAxisValues(table, in_slew, load_cap)
             lookup == [ op |-> "findValue", cell |-> cell, pvt |-> pvt,
                         axis |-> av.values ]
         IN  IF av.status = "ok"
               THEN [ status |-> "ok", error |-> 0, ret |-> Found(lookup),
                      axis |-> av.values, engine |-> <<lookup>> ]
               ELSE Stopped(av)
    ELSE [NoOutcome EXCEPT !.ret = Float(0)]

\* library->units()->powerUnit()
PowerUnit == "W"

\* InternalPowerModel::reportPower
InternalPowerModel_reportPower(table, cell, pvt, in_slew, load_cap, digits) ==
  IF table.present
    THEN LET av == findAxisValues(table, in_slew, load_cap)
             lookup == [ op |-> "reportValue", result_name |-> "Power", cell |-> cell,
                         pvt |-> pvt, axis |-> av.values, unit |-> PowerUnit,
                         digits |-> digits ]
         IN  IF av.status = "ok"
               THEN [ status |-> "ok", error |-> 0, ret |-> Report(lookup),
                      axis |-> av.values, engine |-> <<lookup>> ]
               ELSE Stopped(av)
    ELSE [NoOutcome EXCEPT !.ret = EmptyReport]

\* InternalPower::power that reads the rise slot whatever the edge.
InternalPower_power_RiseSlot(models, tables, rf, cell, pvt, in_slew, load_cap) ==
  LET model == models["rise"]
  IN  IF model # 0
        THEN InternalPowerModel_power(tables[model], cell, pvt, in_slew, load_cap)
        ELSE [NoOutcome EXCEPT !.ret = Float(0)]

\* InternalPower::power on a record whose models_ is `models`.
InternalPower_power(models, tables, rf, cell, pvt, in_slew, load_cap) ==
  LET model == models[rf]
  IN  IF model # 0
        THEN InternalPowerModel_power(tables[model], cell, pvt, in_slew, load_cap)
        ELSE [NoOutcome EXCEPT !.ret = Float(0)]

----------------------------------------------------------------------------
(* The heap and the objects of the lifecycle *)

\* InternalPowerAttrs objects (builders) of the reader.
AttrIds == {1}
\* InternalPowerModel objects made by the reader (new InternalPowerModel(table)).
ModelIds == {1, 2}
\* FuncExpr objects (when conditions) made by the reader.
ExprIds == {1}
\* LibertyCell and LibertyPort objects; LibertyPort::libertyCell() of port p.
Cells == {1, 2}
Ports == {1, 2}
PortCell(port) == port
\* The strings stringCopy makes, in the order it makes them.
StringIds == {1}
\* The names a related_pg_pin attribute gives; a null char pointer.
PgPinNames == {"VDD"}
NullString == "nullptr"

\* Arguments of the queries.
Pvts == {"typ", "slow"}
\* (in_slew, load_cap): (0.8, 3.2) and (1.5, 0.2)
QueryPoints == {<<8, 32>>, <<15, 2>>}
Digits == {3}

\* InternalPowerAttrs::InternalPowerAttrs
InternalPowerAttrs_new ==
  [when_ |-> 0, models_ |-> [rf \in RiseFall |-> 0], related_pg_pin_ |-> 0]

\* A heap object released once more (delete / stringDelete / deleteSubexprs);
\* releasing nullptr does nothing.
Release(counts, id) ==
  IF id = 0 THEN counts ELSE [counts EXCEPT ![id] = @ + 1]

\* InternalPowerModel::~InternalPowerModel, run by each delete of a model:
\* delete model_ (the table has the model's id).
DeleteModel(d, model) ==
  IF model = 0 THEN d
  ELSE [d EXCEPT !.models = Release(@, model),
                 !.tables = IF model_[model].present THEN Release(@, model) ELSE @]

\* deleteContents without the test fall_model != rise_model.
deleteContents_NoAliasTest(a, d) ==
  LET d1 == DeleteModel(DeleteModel(d, a.models_["rise"]), a.models_["fall"])
      d3 == IF a.when_ # 0 THEN [d1 EXCEPT !.exprs = Release(@, a.when_)] ELSE d1
  IN  [d3 EXCEPT !.strings = Release(@, a.related_pg_pin_)]

\* InternalPowerAttrs::deleteContents: the release counts after it.
deleteContents(a, d) ==
  LET rise_model == a.models_["rise"]
      fall_model == a.models_["fall"]
      d1 == DeleteModel(d, rise_model)
      d2 == IF fall_model # rise_model THEN DeleteModel(d1, fall_model) ELSE d1
      d3 == IF a.when_ # 0 THEN [d2 EXCEPT !.exprs = Release(@, a.when_)] ELSE d2
  IN  [d3 EXCEPT !.strings = Release(@, a.related_pg_pin_)]

\* InternalPowerAttrs::setWhen
setWhen(a, when) == [a EXCEPT !.when_ = when]

\* InternalPowerAttrs::setModel
setModel(a, rf, model) == [a EXCEPT !.models_[rf] = model]

\* The member initialisers of InternalPower::InternalPower.
InternalPower_initializers(p, port, related_port, a) ==
  [p EXCEPT !.port_ = port, !.related_port_ = related_port,
            !.when_ = a.when_, !.related_pg_pin_ = a.related_pg_pin_,
            !.done = @ \cup {"initializers"}]

\* The loop with the rise model stored for both edges.
InternalPower_models_RiseOnly(p, a) ==
  [p EXCEPT !.models_ = [rf \in RiseFall |-> a.models_["rise"]],
            !.done = @ \cup {"models"}]

\* The loop over RiseFall::range() of InternalPower::InternalPower.
InternalPower_models(p, a) ==
  [p EXCEPT !.models_ = [rf \in RiseFall |-> a.models_[rf]],
            !.done = @ \cup {"models"}]

\* The constructor registering the record before it fills it.
ConstructorBody_RegistersFirst == <<"addInternalPower", "initializers", "models">>

\* The statements of InternalPower::InternalPower, in order.
ConstructorBody == <<"initializers", "models", "addInternalPower">>

\* Storage of an InternalPower before its constructor has run. from and given
\* are history: the builder it is built from, and the constructor's arguments
\* with what the builder held when the constructor was entered.
RawPower(port, related_port, a) ==
  [ port_ |-> 0, related_port_ |-> 0, when_ |-> 0,
    models_ |-> [rf \in RiseFall |-> 0], related_pg_pin_ |-> 0,
    done |-> {}, alive |-> TRUE,
    from |-> a,
    given |-> [port |-> port, related_port |-> related_port, attrs |-> attrs[a]] ]

\* Storage of an InternalPower that was deleted.
DeadPower ==
  [ port_ |-> 0, related_port_ |-> 0, when_ |-> 0,
    models_ |-> [rf \in RiseFall |-> 0], related_pg_pin_ |-> 0,
    done |-> {}, alive |-> FALSE, from |-> 0,
    given |-> [port |-> 0, related_port |-> 0, attrs |-> InternalPowerAttrs_new] ]

Idle == [stmt |-> 0, power |-> 0, cell |-> 0, port |-> 0, related_port |-> 0]

----------------------------------------------------------------------------
(* Operations *)

\* `call` after a query, and after any other operation.
Called(op, target, args, out) ==
  [op |-> op, target |-> target, args |-> args, out |-> out]
NoCall == Called("none", 0, <<>>, NoOutcome)

Bounded(d) ==
  /\ \A m \in ModelIds : d.models[m] <= MaxDeleted /\ d.tables[m] <= MaxDeleted
  /\ \A e \in ExprIds : d.exprs[e] <= MaxDeleted
  /\ \A i \in StringIds : d.strings[i] <= MaxDeleted

\* The reader calls attrs->setWhen(when).
SetWhen(a, when) ==
  /\ ~exited /\ pc = Idle
  /\ attrs' = [attrs EXCEPT ![a] = setWhen(@, when)]
  /\ call' = NoCall
  /\ UNCHANGED <<powers, internal_powers, model_, strings, deleted, pc, exited>>

\* The reader calls attrs->setModel(rf, model).
SetModel(a, rf, model) ==
  /\ ~exited /\ pc = Idle
  /\ attrs' = [attrs EXCEPT ![a] = setModel(@, rf, model)]
  /\ call' = NoCall
  /\ UNCHANGED <<powers, internal_powers, model_, strings, deleted, pc, exited>>

\* InternalPowerAttrs::setRelatedPgPin: stringDelete of the old string, then
\* stringCopy of the argument (which copies nullptr to nullptr).
SetRelatedPgPin(a, related_pg_pin) ==
  /\ ~exited /\ pc = Idle
  /\ related_pg_pin # NullString => Len(strings) + 1 \in StringIds
  /\ LET d == [deleted EXCEPT !.strings = Release(@, attrs[a].related_pg_pin_)]
     IN  /\ Bounded(d)
         /\ deleted' = d
  /\ IF related_pg_pin # NullString
       THEN /\ strings' = Append(strings, related_pg_pin)
            /\ attrs' = [attrs EXCEPT ![a].related_pg_pin_ = Len(strings) + 1]
       ELSE /\ strings' = strings
            /\ attrs' = [attrs EXCEPT ![a].related_pg_pin_ = 0]
  /\ call' = NoCall
  /\ UNCHANGED <<powers, internal_powers, model_, pc, exited>>

\* The owner of the builder calls attrs->deleteContents().
DeleteContents(a) ==
  /\ ~exited /\ pc = Idle
  /\ LET d == deleteContents(attrs[a], deleted)
     IN  /\ Bounded(d)
         /\ deleted' = d
  /\ call' = Called("deleteContents", a, <<>>, NoOutcome)
  /\ UNCHANGED <<attrs, powers, internal_powers, model_, strings, pc, exited>>

\* new InternalPower(cell, port, related_port, attrs): storage is allocated
\* and the constructor is entered.
NewInternalPower(cell, port, related_port, a) ==
  /\ ~exited /\ pc = Idle
  /\ powers' = Append(powers, RawPower(port, related_port, a))
  /\ pc' = [ stmt |-> 1, power |-> Len(powers) + 1, cell |-> cell,
             port |-> port, related_port |-> related_port ]
  /\ call' = NoCall
  /\ UNCHANGED <<attrs, internal_powers, model_, strings, deleted, exited>>

\* The constructor moves to its next statement, or returns.
Advance ==
  IF pc.stmt = Len(ConstructorBody) THEN Idle ELSE [pc EXCEPT !.stmt = @ + 1]

\* port_(port), related_port_(related_port), when_(attrs->when()),
\* related_pg_pin_(attrs->relatedPgPin())
CtorInitializers ==
  /\ ~exited /\ pc # Idle
  /\ ConstructorBody[pc.stmt] = "initializers"
  /\ powers' = [powers EXCEPT ![pc.power] =
                  InternalPower_initializers(@, pc.port, pc.related_port, attrs[@.from])]
  /\ pc' = Advance
  /\ UNCHANGED <<attrs, internal_powers, model_, strings, deleted, call, exited>>

\* for (auto rf : RiseFall::range()) models_[rf_index] = attrs->model(rf);
CtorModels ==
  /\ ~exited /\ pc # Idle
  /\ ConstructorBody[pc.stmt] = "models"
  /\ powers' = [powers EXCEPT ![pc.power] = InternalPower_models(@, attrs[@.from])]
  /\ pc' = Advance
  /\ UNCHANGED <<attrs, internal_powers, model_, strings, deleted, call, exited>>

\* cell->addInternalPower(this)
CtorAddInternalPower ==
  /\ ~exited /\ pc # Idle
  /\ ConstructorBody[pc.stmt] = "addInternalPower"
  /\ internal_powers' = [internal_powers EXCEPT ![pc.cell] = Append(@, pc.power)]
  /\ pc' = Advance
  /\ UNCHANGED <<attrs, powers, model_, strings, deleted, call, exited>>

\* A destructor that deletes the record's models.
DeleteInternalPower_DeletesModels(p) ==
  /\ ~exited /\ pc = Idle
  /\ powers[p].alive
  /\ powers' = [powers EXCEPT ![p] = DeadPower]
  /\ LET d == DeleteModel(DeleteModel(deleted, powers[p].models_["rise"]),
                          powers[p].models_["fall"])
     IN  /\ Bounded(d)
         /\ deleted' = d
  /\ call' = NoCall
  /\ UNCHANGED <<attrs, internal_powers, model_, strings, pc, exited>>

\* delete of a constructed record: InternalPower::~InternalPower releases
\* nothing, and the record's storage is gone (its fields are read no more).
DeleteInternalPower(p) ==
  /\ ~exited /\ pc = Idle
  /\ powers[p].alive
  /\ powers' = [powers EXCEPT ![p] = DeadPower]
  /\ call' = NoCall
  /\ UNCHANGED <<attrs, internal_powers, model_, strings, deleted, pc, exited>>

\* What a call may do once it reads an object that was released or a null
\* pointer: crash, or return anything.
UndefinedResults ==
  { [crash |-> TRUE, ret |-> NoResult],
    [crash |-> FALSE, ret |-> Float(0)],
    [crash |-> FALSE, ret |-> [garbage |-> TRUE]] }

\* The outcome `o` of a query becomes visible: a fatal error ends the process.
Finish(op, target, args, o) ==
  IF o.status = "undefined"
    THEN \E u \in UndefinedResults :
           /\ call' = Called(op, target, args, [o EXCEPT !.ret = u.ret])
           /\ exited' = u.crash
    ELSE /\ call' = Called(op, target, args, o)
         /\ exited' = (o.status = "fatal")

Dangling == [NoOutcome EXCEPT !.status = "undefined"]

\* A caller asks a live record: power->power(rf, pvt, in_slew, load_cap).
Power(p, rf, pvt, in_slew, load_cap) ==
  /\ ~exited /\ pc = Idle
  /\ powers[p].alive
  /\ LET model == powers[p].models_[rf]
         cell == PortCell(powers[p].port_)
         o == IF model # 0 /\ deleted.models[model] > 0
                THEN Dangling
                ELSE InternalPower_power(powers[p].models_, model_, rf, cell, pvt,
                                         in_slew, load_cap)
     IN  Finish("power", <<p, rf>>, <<pvt, in_slew, load_cap>>, o)
  /\ UNCHANGED <<attrs, powers, internal_powers, model_, strings, deleted, pc>>

\* A caller asks a model: model->reportPower(cell, pvt, in_slew, load_cap, digits).
ReportPower(model, cell, pvt, in_slew, load_cap, digits) ==
  /\ ~exited /\ pc = Idle
  /\ LET o == IF deleted.models[model] > 0
                THEN Dangling
                ELSE InternalPowerModel_reportPower(model_[model], cell, pvt,
                                                    in_slew, load_cap, digits)
     IN  Finish("reportPower", <<model>>, <<pvt, in_slew, load_cap>>, o)
  /\ UNCHANGED <<attrs, powers, internal_powers, model_, strings, deleted, pc>>

\* The reader checks the table it is about to wrap: checkAxes(table).
CheckAxes(model) ==
  /\ ~exited /\ pc = Idle
  /\ model_[model].present /\ deleted.tables[model] = 0
  /\ call' = Called("checkAxes", <<model>>, <<>>,
                    [NoOutcome EXCEPT !.ret = Bool(checkAxes(model_[model]))])
  /\ UNCHANGED <<attrs, powers, internal_powers, model_, strings, deleted, pc, exited>>

----------------------------------------------------------------------------
(* Specifications *)

NothingDeleted ==
  [ models |-> [m \in ModelIds |-> 0], tables |-> [m \in ModelIds |-> 0],
    exprs |-> [e \in ExprIds |-> 0], strings |-> [i \in StringIds |-> 0] ]

\* The table of Scenario B: order 2 over (input transition time, load).
SlewLoadTable ==
  [ present |-> TRUE, order |-> 2, axis1 |-> "input_transition_time",
    axis2 |-> "total_output_net_capacitance", axis3 |-> NullAxis ]

\* The lifecycle: the reader has made its builders, two models (one wrapping a
\* table, one wrapping none) and a condition, and has set nothing yet.
Init ==
  /\ attrs = [a \in AttrIds |-> InternalPowerAttrs_new]
  /\ powers = <<>>
  /\ internal_powers = [c \in Cells |-> <<>>]
  /\ model_ = [m \in ModelIds |-> IF m = 1 THEN SlewLoadTable ELSE NullTable]
  /\ strings = <<>>
  /\ deleted = NothingDeleted
  /\ pc = Idle
  /\ call = NoCall
  /\ exited = FALSE

Setters ==
  \/ \E a \in AttrIds, when \in ExprIds \cup {0} : SetWhen(a, when)
  \/ \E a \in AttrIds, rf \in RiseFall, model \in ModelIds \cup {0} : SetModel(a, rf, model)
  \/ \E a \in AttrIds, name \in PgPinNames \cup {NullString} : SetRelatedPgPin(a, name)

\* The statements of the constructor that is running.
Constructor ==
  \/ CtorInitializers
  \/ CtorModels
  \/ CtorAddInternalPower

Queries ==
  \/ \E p \in DOMAIN powers, rf \in RiseFall, pvt \in Pvts, q \in QueryPoints :
       Power(p, rf, pvt, q[1], q[2])
  \/ \E model \in ModelIds, cell \in Cells, pvt \in Pvts, q \in QueryPoints,
        digits \in Digits :
       ReportPower(model, cell, pvt, q[1], q[2], digits)
  \/ \E model \in ModelIds : CheckAxes(model)

\* The lifecycle of one builder and the one record built from it, with every
\* value the setters can be given.
Next ==
  \/ Setters
  \/ \E a \in AttrIds : powers = <<>> /\ NewInternalPower(PortCell(1), 1, 0, a)
  \/ Constructor
  \/ \E p \in DOMAIN powers : DeleteInternalPower(p)
  \/ \E a \in AttrIds : DeleteContents(a)
  \/ \E p \in DOMAIN powers, rf \in RiseFall : Power(p, rf, "typ", 8, 32)

Spec == Init /\ [][Next]_vars

\* The registration of records with their cells: up to MaxPowers records over
\* two cells, every operation of the unit, and a builder that is given one
\* model, one condition and one name.
RegistryNext ==
  \/ \E a \in AttrIds : SetWhen(a, 1)
  \/ \E a \in AttrIds : SetModel(a, "rise", 1)
  \/ \E a \in AttrIds : SetRelatedPgPin(a, "VDD")
  \/ \E port \in Ports, a \in AttrIds :
       Len(powers) < MaxPowers /\ NewInternalPower(PortCell(port), port, 0, a)
  \/ Constructor
  \/ \E p \in DOMAIN powers : DeleteInternalPower(p)
  \/ \E a \in AttrIds : DeleteContents(a)
  \/ \E p \in DOMAIN powers, rf \in RiseFall : Power(p, rf, "typ", 8, 32)
  \/ \E model \in ModelIds : ReportPower(model, 1, "typ", 8, 32, 3)
  \/ \E model \in ModelIds : CheckAxes(model)

RegistrySpec == Init /\ [][RegistryNext]_vars

\* The query phase: the reader has built one record from builder 1, whose edge
\* slots hold model 1 (wrapping any table, or none) or nothing; the library is
\* frozen and only queries run.
QueryInit ==
  /\ \E slots \in [RiseFall -> {0, 1}] :
       /\ attrs = [a \in AttrIds |-> setModel(setModel(InternalPowerAttrs_new,
                                        "rise", slots["rise"]), "fall", slots["fall"])]
       /\ powers = << InternalPower_models(
                        InternalPower_initializers(
                          RawPower(1, 0, 1), 1, 0, attrs[1]),
                        attrs[1]) >>
  /\ internal_powers = [c \in Cells |-> IF c = 1 THEN <<1>> ELSE <<>>]
  /\ \E table \in TableModels \cup {NullTable} :
       model_ = [m \in ModelIds |-> IF m = 1 THEN table ELSE NullTable]
  /\ strings = <<>>
  /\ deleted = NothingDeleted
  /\ pc = Idle
  /\ call = NoCall
  /\ exited = FALSE

QuerySpec == QueryInit /\ [][Queries]_vars

TypeOK ==
  /\ attrs \in [AttrIds -> [ when_ : ExprIds \cup {0},
                             models_ : [RiseFall -> ModelIds \cup {0}],
                             related_pg_pin_ : StringIds \cup {0} ]]
  /\ internal_powers \in [Cells -> Seq(1..MaxPowers)]
  /\ model_ \in [ModelIds -> TableModels \cup {NullTable}]
  /\ DOMAIN strings \subseteq StringIds
  /\ exited \in BOOLEAN

----------------------------------------------------------------------------
(* Properties of the queries, under QuerySpec *)

\* What the last call was, and on which edge slot, model and table.
IsPower == call.op = "power"
IsReportPower == call.op = "reportPower"
IsCheckAxes == call.op = "checkAxes"
CalledSlot == powers[call.target[1]].models_[call.target[2]]
CalledModel == IF IsPower THEN CalledSlot ELSE call.target[1]
CalledTable == IF CalledModel = 0 THEN NullTable ELSE model_[CalledModel]
CalledPvt == call.args[1]
CalledSlew == call.args[2]
CalledLoad == call.args[3]
Axes(t) == <<t.axis1, t.axis2, t.axis3>>

\* The call returned, raised nothing, and asked the table engine nothing.
Silent ==
  /\ call.out.status = "ok" /\ call.out.error = 0
  /\ call.out.engine = <<>>
  /\ ~exited

\* C1: a query of an edge that has no model answers exactly 0.0, and a query
\* of a model that wraps no table answers exactly 0.0 (power) or the empty
\* report (reportPower); in all these cases the table engine is not asked and
\* no fatal error is raised.
C1_NoDataIsZero ==
  /\ (IsPower /\ CalledSlot = 0) => (call.out.ret = Float(0) /\ Silent)
  /\ (IsPower /\ CalledSlot # 0 /\ ~CalledTable.present) =>
       (call.out.ret = Float(0) /\ Silent)
  /\ (IsReportPower /\ ~CalledTable.present) =>
       (call.out.ret = EmptyReport /\ Silent)

C1_Witness ==
  /\ IsPower /\ CalledSlot = 0
  /\ powers[call.target[1]].models_ # [rf \in RiseFall |-> 0]
  /\ call.out.ret = Float(0)

\* The scalar the claim gives an axis of a resolvable kind.
Resolvable == {"input_transition_time", "total_output_net_capacitance"}
Resolved(axis, in_slew, load_cap) ==
  IF axis = "input_transition_time" THEN in_slew ELSE load_cap

\* C2: for a table of order n in 0..3 whose first n axes are resolvable, power
\* asks the table engine exactly once, for findValue at the query's own corner
\* (and the record's cell), with the first n axis values resolved in position
\* order and the other 3-n exactly 0.0, and returns what the engine answers.
\* An order-0 table is asked at (0, 0, 0); the order-2 table over (input
\* transition time, load) queried at slew 0.8, load 3.2 is asked at (0.8, 3.2, 0).
C2_ForwardsResolvedAxes ==
  (/\ IsPower /\ CalledSlot # 0 /\ CalledTable.present
   /\ CalledTable.order <= 3
   /\ \A i \in 1..3 : i <= CalledTable.order => Axes(CalledTable)[i] \in Resolvable)
  => LET n == CalledTable.order
         expected == [ i \in 1..3 |->
                         IF i <= n
                           THEN Resolved(Axes(CalledTable)[i], CalledSlew, CalledLoad)
                           ELSE 0 ]
         lookup == [ op |-> "findValue",
                     cell |-> PortCell(powers[call.target[1]].port_),
                     pvt |-> CalledPvt, axis |-> expected ]
     IN  /\ call.out.status = "ok" /\ ~exited
         /\ call.out.axis = expected
         /\ call.out.engine = <<lookup>>
         /\ call.out.ret = Found(lookup)
         /\ n = 0 => call.out.engine[1].axis = <<0, 0, 0>>
         /\ (CalledTable = SlewLoadTable /\ CalledSlew = 8 /\ CalledLoad = 32)
              => call.out.engine[1].axis = <<8, 32, 0>>

C2_Witness ==
  /\ IsPower /\ CalledSlot # 0 /\ CalledTable = SlewLoadTable
  /\ CalledSlew = 8 /\ CalledLoad = 32 /\ CalledPvt = "slow"
  /\ Len(call.out.engine) = 1
  /\ call.out.engine[1].axis = <<8, 32, 0>> /\ call.out.engine[1].pvt = "slow"

\* C3: power and reportPower on a table of order 4 or more raise the fatal
\* error 225 with the three axis values set to 0.0, and do not ask the table
\* engine.
C3_UnsupportedOrderIsFatal ==
  ((IsPower \/ IsReportPower) /\ CalledTable.present /\ CalledTable.order >= 4)
  => /\ call.out.status = "fatal" /\ call.out.error = ErrTableOrder
     /\ call.out.axis = <<0, 0, 0>>
     /\ call.out.engine = <<>>
     /\ call.out.ret = NoResult
     /\ exited

C3_Witness ==
  /\ IsReportPower /\ CalledTable.present /\ CalledTable.order >= 4
  /\ call.out.error = ErrTableOrder /\ exited

\* C4: on an order-1 table, the one axis value power resolves is in_slew for
\* an input_transition_time axis and load_cap for a
\* total_output_net_capacitance axis; for every other kind axisValue raises
\* the fatal error 226 (with 0.0 as the value of its return statement), the
\* call ends there and the table engine is not asked.
C4_AxisValueByKind ==
  (IsPower /\ CalledTable.present /\ CalledTable.order = 1)
  => LET axis == CalledTable.axis1
         v == axisValue(axis, CalledSlew, CalledLoad)
     IN  /\ axis = "input_transition_time" =>
               /\ v = [status |-> "ok", value |-> CalledSlew, error |-> 0]
               /\ call.out.status = "ok" /\ call.out.axis[1] = CalledSlew
         /\ axis = "total_output_net_capacitance" =>
               /\ v = [status |-> "ok", value |-> CalledLoad, error |-> 0]
               /\ call.out.status = "ok" /\ call.out.axis[1] = CalledLoad
         /\ axis \notin Resolvable =>
               /\ v = [status |-> "fatal", value |-> 0, error |-> ErrTableAxes]
               /\ call.out.status = "fatal" /\ call.out.error = ErrTableAxes
               /\ call.out.engine = <<>> /\ exited

C4_Witness ==
  /\ IsPower /\ CalledTable.present /\ CalledTable.order = 1
  /\ CalledTable.axis1 = "related_pin_transition"
  /\ call.out.status = "fatal" /\ call.out.error = ErrTableAxes

\* The kinds of the related/leakage table family.
RelatedKinds ==
  { "constrained_pin_transition", "related_pin_transition",
    "related_out_total_output_net_capacitance" }

\* C5: checkAxes answers true exactly when axis3 is absent and each of axis1,
\* axis2 that is present has a kind of the related family.
C5_CheckAxesIff ==
  IsCheckAxes =>
    call.out.ret =
      Bool( /\ CalledTable.axis3 = NullAxis
            /\ \A axis \in {CalledTable.axis1, CalledTable.axis2} :
                 axis = NullAxis \/ axis \in RelatedKinds )

C5_Witness ==
  /\ IsCheckAxes
  /\ CalledTable.axis1 = NullAxis /\ CalledTable.axis2 \in RelatedKinds
  /\ CalledTable.axis3 # NullAxis
  /\ call.out.ret = Bool(FALSE)

\* The axes a table has.
PresentAxes(t) == {i \in 1..3 : Axes(t)[i] # NullAxis}

\* C10: for a table whose order n is in 1..3 and is the number of its axes, a
\* table checkAxes accepts makes power and reportPower raise the fatal error
\* 226, and a table they resolve is one checkAxes rejects; of the tables whose
\* order is the number of their axes, only the one of order 0 is both accepted
\* and resolved.
C10_VocabulariesDisjoint ==
  ((IsPower \/ IsReportPower) /\ CalledTable.present
     /\ CalledTable.order <= 3
     /\ Cardinality(PresentAxes(CalledTable)) = CalledTable.order)
  => /\ (CalledTable.order >= 1 /\ checkAxes(CalledTable)) =>
          (call.out.status = "fatal" /\ call.out.error = ErrTableAxes /\ exited)
     /\ (CalledTable.order >= 1 /\ call.out.status = "ok") => ~checkAxes(CalledTable)
     /\ (call.out.status = "ok" /\ checkAxes(CalledTable)) => CalledTable.order = 0

C10_Witness ==
  /\ IsPower /\ CalledTable.present /\ CalledTable.order = 2
  /\ Cardinality(PresentAxes(CalledTable)) = 2
  /\ checkAxes(CalledTable)
  /\ call.out.error = ErrTableAxes

----------------------------------------------------------------------------
(* Properties of the lifecycle, under Spec *)

\* The models a builder holds in its edge slots.
HeldModels(a) == {attrs[a].models_[rf] : rf \in RiseFall} \ {0}

\* C6: one deleteContents releases each model the builder holds in its rise
\* and fall slots exactly once (once for a model held in both slots, once each
\* for two models, the fall model too when the rise slot is empty) and releases
\* no other model.
C6_TeardownReleasesHeldModelsOnce ==
  [][ \A a \in AttrIds :
        DeleteContents(a) =>
          \A m \in ModelIds :
            deleted'.models[m] =
              deleted.models[m] + (IF m \in HeldModels(a) THEN 1 ELSE 0) ]_vars

C6_Witness ==
  /\ call.op = "deleteContents"
  /\ attrs[call.target].models_ = [rf \in RiseFall |-> 1]
  /\ deleted.models = [m \in ModelIds |-> IF m = 1 THEN 1 ELSE 0]

\* The constructor of record p has returned and p was not deleted.
Constructed(p) == powers[p].alive /\ pc.power # p

\* The heap objects record p refers to that were released.
ReleasedUnder(p) ==
  {<<"model", powers[p].models_[rf]>> :
     rf \in {r \in RiseFall : /\ powers[p].models_[r] # 0
                              /\ deleted.models[powers[p].models_[r]] > 0}}
  \cup {<<"when", e>> : e \in {x \in ExprIds : powers[p].when_ = x /\ deleted.exprs[x] > 0}}
  \cup {<<"pg_pin", i>> :
          i \in {x \in StringIds : powers[p].related_pg_pin_ = x /\ deleted.strings[x] > 0}}

\* C7 as claimed: no model, condition or pg-pin string is ever released
\* twice, and none is released while a live record refers to it.
C7_AsClaimed ==
  /\ \A m \in ModelIds : deleted.models[m] <= 1
  /\ \A e \in ExprIds : deleted.exprs[e] <= 1
  /\ \A i \in StringIds : deleted.strings[i] <= 1
  /\ \A p \in DOMAIN powers : Constructed(p) => ReleasedUnder(p) = {}

\* C7 as amended: only the builder releases. Models and conditions are
\* released by deleteContents alone, pg-pin strings by deleteContents and
\* setRelatedPgPin alone (never by the construction or the destruction of a
\* record, nor by power); and from a heap where nothing was released yet, a
\* deleteContents releases everything the builder holds exactly once, whether
\* or not a record was built from the builder.
C7_OnlyTheBuilderReleases ==
  [][ /\ (deleted'.models # deleted.models \/ deleted'.exprs # deleted.exprs)
           => \E a \in AttrIds : DeleteContents(a)
      /\ deleted'.strings # deleted.strings
           => \/ \E a \in AttrIds : DeleteContents(a)
              \/ \E a \in AttrIds, name \in PgPinNames \cup {NullString} :
                   SetRelatedPgPin(a, name)
      /\ \A a \in AttrIds :
           (DeleteContents(a) /\ deleted = NothingDeleted) =>
             /\ \A m \in ModelIds :
                  deleted'.models[m] = IF m \in HeldModels(a) THEN 1 ELSE 0
             /\ \A e \in ExprIds :
                  deleted'.exprs[e] = IF attrs[a].when_ = e THEN 1 ELSE 0
             /\ \A i \in StringIds :
                  deleted'.strings[i] = IF attrs[a].related_pg_pin_ = i THEN 1 ELSE 0
    ]_vars

C7_Witness ==
  /\ call.op = "deleteContents"
  /\ \E p \in DOMAIN powers :
       /\ Constructed(p) /\ powers[p].from = call.target
       /\ {o[1] : o \in ReleasedUnder(p)} = {"model", "when", "pg_pin"}
       /\ \A m \in ModelIds : deleted.models[m] <= 1

\* The fields of record p are what its constructor was given.
FieldsAsGiven(p) ==
  /\ powers[p].port_ = powers[p].given.port
  /\ powers[p].related_port_ = powers[p].given.related_port
  /\ powers[p].when_ = powers[p].given.attrs.when_
  /\ powers[p].models_ = powers[p].given.attrs.models_
  /\ powers[p].related_pg_pin_ = powers[p].given.attrs.related_pg_pin_

\* C8: a constructed record holds the port, related port, condition, edge
\* models and pg-pin name its builder held when it was constructed; no step
\* (a setter of the builder, a query) changes a field of it while it lives;
\* and power changes nothing of the records, the builders, the cells' lists
\* or the heap.
C8_RecordFieldsAreFixed ==
  /\ [](\A p \in DOMAIN powers : Constructed(p) => FieldsAsGiven(p))
  /\ [][ \A p \in DOMAIN powers :
           (Constructed(p) /\ powers'[p].alive) => powers'[p] = powers[p] ]_vars
  /\ [][ (\E p \in DOMAIN powers, rf \in RiseFall : Power(p, rf, "typ", 8, 32))
           => UNCHANGED <<attrs, powers, internal_powers, model_, strings, deleted, pc>>
     ]_vars

C8_Witness ==
  /\ IsPower
  /\ \E p \in DOMAIN powers :
       /\ Constructed(p)
       /\ powers[p].models_ = [rf \in RiseFall |-> IF rf = "rise" THEN 1 ELSE 2]
       /\ attrs[powers[p].from].models_ = [rf \in RiseFall |-> IF rf = "rise" THEN 2 ELSE 0]
       /\ powers[p].when_ # attrs[powers[p].from].when_
       /\ powers[p].related_pg_pin_ # attrs[powers[p].from].related_pg_pin_

----------------------------------------------------------------------------
(* Properties of the registration, under RegistrySpec *)

\* How often record p is in the cells' lists.
Registrations(p) ==
  Cardinality({<<c, i>> \in Cells \X (1..Len(powers)) :
                 i \in DOMAIN internal_powers[c] /\ internal_powers[c][i] = p})

\* C9: a cell's list changes only by the last statement of a constructor,
\* which appends the record under construction to the list of the cell it was
\* given; so a record whose constructor has returned is in the lists exactly
\* once, a live record in a list has its fields filled, the lists are in
\* construction order, and no other operation adds to or removes from a list.
C9_RegisteredOnceWhenBuilt ==
  /\ [][ internal_powers' # internal_powers =>
           /\ pc # Idle /\ pc' = Idle
           /\ pc.power = Len(powers)
           /\ {"initializers", "models"} \subseteq powers[pc.power].done
           /\ internal_powers' =
                [internal_powers EXCEPT ![pc.cell] = Append(@, pc.power)] ]_vars
  /\ [](\A p \in DOMAIN powers : pc.power # p => Registrations(p) = 1)
  /\ [](\A c \in Cells : \A i \in DOMAIN internal_powers[c] :
          LET p == internal_powers[c][i]
          IN  /\ powers[p].alive => {"initializers", "models"} \subseteq powers[p].done
              /\ \A j \in DOMAIN internal_powers[c] : i < j => p < internal_powers[c][j])

C9_Witness ==
  /\ pc = Idle
  /\ internal_powers[1] = <<1, 2>>
  /\ powers[1].alive /\ powers[2].alive
  /\ powers[1].models_ # powers[2].models_

====
